---- MODULE Spec2Model ----
(***************************************************************************)
(* A model of minishell.c: the read loop of main, the validator            *)
(* (trim, verify_input), the parser (parse_input, parse_single_command)    *)
(* and the pipeline executor (execute_commands) with the child processes   *)
(* it forks.                                                               *)
(*                                                                         *)
(* A C string is a sequence of one-character strings.  The NULL pointer is *)
(* the empty sequence (strtok never returns an empty token, so no token    *)
(* is confused with it).                                                   *)
(***************************************************************************)
EXTENDS Integers, Sequences, FiniteSets, TLC

\* ---------------------------------------------------------------- sizes
MAX_LINE == 1024
MAX_ARGS == 32
MAX_COMMANDS == 8

\* Longest line of the exhaustively enumerated part of the input set.
MaxLen == 3

NULL == << >>
\* Content of malloc'ed memory that was never written.
GARBAGE == << "?uninit?" >>

\* ---------------------------------------------------------------- inputs
Alphabet == {"a", " ", "|", "\t"}

ShortLines == UNION { [1..k -> Alphabet] : k \in 0..MaxLen }

LongLines ==
  { << "a", "|", "a", "|", "a" >>,                                   \* a|a|a
    << "a", " ", "|", " ", "|", " ", "a" >>,                         \* a | | a
    << "a", " ", "|", "|", " ", "a" >>,                              \* a || a
    << " ", "|", " ", "a", " ", "b" >>,                              \*  | a b
    << "a", " ", ">", " ", "f" >>,                                   \* a > f
    << "a", " ", "<", " ", "f" >>,                                   \* a < f
    << "a", " ", "<" >>,                                             \* a <
    << "a", " ", "b", " ", ">" >>,                                   \* a b >
    << "a", " ", "<", " ", "f", "|", "b" >>,                         \* a < f|b
    << "a", " ", ">", " ", "f", "|", "b" >>,                         \* a > f|b
    << "a", "|", "b", " ", "<", " ", "f" >>,                         \* a|b < f
    << "a", "|", "b", " ", "<", " ", "f", " ", ">", " ", "g" >>,     \* a|b < f > g
    << "a", "|", "b", " ", "<", " ", "f", " ", ">", " ", "g", "|", "a" >> }
                                                                     \* a|b < f > g|a

Lines == ShortLines \cup LongLines

\* The lines of the runs in which the scheduling of the processes is
\* followed to the end: one to three stages, with and without redirects,
\* with and without a stage that has no program.
PipelineLines ==
  LongLines \cup { << "a" >>, << "a", "|", "a" >>, << "\t" >>, << >> }

\* The lines given to the parser alone: one stage of 1..MaxWords different
\* words, 0..MaxPipes pipes between one-word stages, the same behind a
\* leading pipe, and every sequence of 1..MaxTokens tokens out of a, f, <, >.
MaxWords == 34
MaxPipes == 9
MaxTokens == 4

Digits == << "0", "1", "2", "3", "4", "5", "6", "7", "8", "9" >>

Word(n) == << Digits[((n \div 10) % 10) + 1], Digits[(n % 10) + 1] >>

RECURSIVE WordLine(_)
WordLine(n) == IF n = 1 THEN Word(1) ELSE WordLine(n - 1) \o << " " >> \o Word(n)

RECURSIVE PipeLine(_)
PipeLine(n) == IF n = 0 THEN << "a" >> ELSE PipeLine(n - 1) \o << "|", "a" >>

RECURSIVE TokenLine(_)
TokenLine(ts) ==
  IF Len(ts) = 1 THEN << ts[1] >>
  ELSE TokenLine(SubSeq(ts, 1, Len(ts) - 1)) \o << " ", ts[Len(ts)] >>

ParseLines ==
  Lines
  \cup { WordLine(n) : n \in 1..MaxWords }
  \cup { PipeLine(n) : n \in 0..MaxPipes }
  \cup { << "|" >> \o PipeLine(n) : n \in 0..MaxPipes }
  \cup { TokenLine(ts) : ts \in UNION { [1..k -> {"a", "f", "<", ">"}] : k \in 1..MaxTokens } }

\* The byte in front of the input buffer, read by verify_input as
\* input[input_length - 1] when the line is empty: any value.
Bytes == {"\n", "x"}

\* ---------------------------------------------------------------- libc
\* isspace() in the C locale (the vertical tab, which no line of the input
\* set holds, has no TLA+ escape and is left out)
isspace(c) == c \in {" ", "\t", "\n", "\r", "\f"}

\* strspn(s, accept): length of the longest prefix of s made of accept
strspn(s, accept) ==
  IF \A k \in 1..Len(s) : s[k] \in accept THEN Len(s)
  ELSE (CHOOSE k \in 1..Len(s) :
          s[k] \notin accept /\ \A j \in 1..(k-1) : s[j] \in accept) - 1

\* strstr(s, "||") != NULL
has_double_pipe(s) == \E k \in 1..(Len(s)-1) : s[k] = "|" /\ s[k+1] = "|"

\* The tokens a loop of strtok(s, delim) / strtok(NULL, delim) returns
\* until it returns NULL: the maximal runs of non-delimiter characters.
RECURSIVE strtok(_, _)
strtok(s, delim) ==
  IF s = << >> THEN << >>
  ELSE IF s[1] = delim THEN strtok(Tail(s), delim)
  ELSE LET n == Len(s)
           stop == IF \E k \in 1..n : s[k] = delim
                   THEN CHOOSE k \in 1..n :
                          s[k] = delim /\ \A j \in 1..(k-1) : s[j] # delim
                   ELSE n + 1
       IN << SubSeq(s, 1, stop - 1) >> \o strtok(SubSeq(s, stop + 1, n), delim)

\* ---------------------------------------------------------------- trim
\* The buffer after trim(str): the function advances its own copy of the
\* pointer over the leading whitespace, so only the trailing whitespace is
\* cut from the buffer; an all-whitespace buffer is left as it is.
trim(str) ==
  IF \A k \in 1..Len(str) : isspace(str[k]) THEN str
  ELSE LET end == CHOOSE k \in 1..Len(str) :
                    ~isspace(str[k]) /\ \A j \in (k+1)..Len(str) : isspace(str[j])
       IN SubSeq(str, 1, end)

\* ---------------------------------------------------------------- verify_input
\* The buffer verify_input leaves: a newline at its end is cut.
chomp(input0) ==
  IF Len(input0) > 0 /\ input0[Len(input0)] = "\n"
  THEN SubSeq(input0, 1, Len(input0) - 1) ELSE input0

\* verify_input with pipe_count > MAX_COMMANDS at line 173.
verify_input_off_by_one(input0, before) ==
  LET len0     == Len(input0)
      newline  == (IF len0 = 0 THEN before ELSE input0[len0]) = "\n"
      wrapped  == newline /\ len0 = 0
      input    == chomp(input0)
      len      == Len(input)
      pipe_count == Cardinality({k \in 1..len : input[k] = "|"})
  IN  IF ~wrapped /\ (len = 0 \/ strspn(input, {" "}) = len) THEN "Empty"
      ELSE IF wrapped \/ len >= MAX_LINE THEN "TooLong"
      ELSE IF input[1] = "|" \/ input[len] = "|" THEN "MalformedPipe"
      ELSE IF has_double_pipe(input) THEN "MalformedPipe"
      ELSE IF strspn(input, {" ", "|"}) = len THEN "MalformedPipe"
      ELSE IF pipe_count > MAX_COMMANDS THEN "TooManyCommands"
      ELSE "OK"

\* verify_input without the check of line 153.
verify_input_no_double(input0, before) ==
  LET len0     == Len(input0)
      newline  == (IF len0 = 0 THEN before ELSE input0[len0]) = "\n"
      wrapped  == newline /\ len0 = 0
      input    == chomp(input0)
      len      == Len(input)
      pipe_count == Cardinality({k \in 1..len : input[k] = "|"})
  IN  IF ~wrapped /\ (len = 0 \/ strspn(input, {" "}) = len) THEN "Empty"
      ELSE IF wrapped \/ len >= MAX_LINE THEN "TooLong"
      ELSE IF input[1] = "|" \/ input[len] = "|" THEN "MalformedPipe"
      ELSE IF strspn(input, {" ", "|"}) = len THEN "MalformedPipe"
      ELSE IF pipe_count >= MAX_COMMANDS THEN "TooManyCommands"
      ELSE "OK"

\* The result of verify_input: "OK" for true, else the reason of the
\* message printed.  The three pipe messages (lines 148, 155, 162) are the
\* reason MalformedPipe.  `before` is the byte at input[-1].
\* input_length is a size_t: for an empty line whose input[-1] is a newline
\* --input_length wraps to SIZE_MAX, which is neither 0 nor a strspn result
\* and is >= MAX_LINE.
verify_input(input0, before) ==
  LET len0     == Len(input0)
      newline  == (IF len0 = 0 THEN before ELSE input0[len0]) = "\n"
      wrapped  == newline /\ len0 = 0
      input    == chomp(input0)
      len      == Len(input)
      pipe_count == Cardinality({k \in 1..len : input[k] = "|"})
  IN  IF ~wrapped /\ (len = 0 \/ strspn(input, {" "}) = len) THEN "Empty"
      ELSE IF wrapped \/ len >= MAX_LINE THEN "TooLong"
      ELSE IF input[1] = "|" \/ input[len] = "|" THEN "MalformedPipe"
      ELSE IF has_double_pipe(input) THEN "MalformedPipe"
      ELSE IF strspn(input, {" ", "|"}) = len THEN "MalformedPipe"
      ELSE IF pipe_count >= MAX_COMMANDS THEN "TooManyCommands"
      ELSE "OK"

\* ---------------------------------------------------------------- parser
\* Command: args[k] of the code is args[k+1] here.
\* A Command of main's array before the first line: args points to fresh
\* malloc'ed memory, the other fields are uninitialised stack.
FreshCommand ==
  [command |-> GARBAGE, args |-> [k \in 1..MAX_ARGS |-> GARBAGE],
   inputFile |-> GARBAGE, outputFile |-> GARBAGE]

\* The loop with the file name of a redirect also taken as an argument.
RECURSIVE parse_tokens_keep_file(_, _, _, _)
parse_tokens_keep_file(toks, k, cmd, argCount) ==
  IF k > Len(toks) THEN [cmd EXCEPT !.args[argCount + 1] = NULL]
  ELSE IF toks[k] = << "<" >> THEN
         IF k + 1 > Len(toks)
         THEN [cmd EXCEPT !.inputFile = NULL, !.args[argCount + 1] = NULL]
         ELSE parse_tokens_keep_file(toks, k + 1,
                                     [cmd EXCEPT !.inputFile = toks[k+1]], argCount)
  ELSE IF toks[k] = << ">" >> THEN
         IF k + 1 > Len(toks)
         THEN [cmd EXCEPT !.outputFile = NULL, !.args[argCount + 1] = NULL]
         ELSE parse_tokens_keep_file(toks, k + 1,
                                     [cmd EXCEPT !.outputFile = toks[k+1]], argCount)
  ELSE IF argCount < MAX_ARGS - 1
         THEN parse_tokens_keep_file(toks, k + 1,
                                     [cmd EXCEPT !.args[argCount + 1] = toks[k]],
                                     argCount + 1)
         ELSE parse_tokens_keep_file(toks, k + 1, cmd, argCount)

\* The while loop of parse_single_command from token k on.
RECURSIVE parse_tokens(_, _, _, _)
parse_tokens(toks, k, cmd, argCount) ==
  IF k > Len(toks) THEN [cmd EXCEPT !.args[argCount + 1] = NULL]
  ELSE IF toks[k] = << "<" >> THEN
         IF k + 1 > Len(toks)
         THEN [cmd EXCEPT !.inputFile = NULL, !.args[argCount + 1] = NULL]
         ELSE parse_tokens(toks, k + 2, [cmd EXCEPT !.inputFile = toks[k+1]], argCount)
  ELSE IF toks[k] = << ">" >> THEN
         IF k + 1 > Len(toks)
         THEN [cmd EXCEPT !.outputFile = NULL, !.args[argCount + 1] = NULL]
         ELSE parse_tokens(toks, k + 2, [cmd EXCEPT !.outputFile = toks[k+1]], argCount)
  ELSE IF argCount < MAX_ARGS - 1
         THEN parse_tokens(toks, k + 1, [cmd EXCEPT !.args[argCount + 1] = toks[k]],
                           argCount + 1)
         ELSE parse_tokens(toks, k + 1, cmd, argCount)

\* parse_single_command without the assignments of lines 81-82.
parse_single_command_keeps_redirect(segment, old) ==
  LET toks  == strtok(segment, " ")
      token == IF toks = << >> THEN NULL ELSE toks[1]
      cmd   == [command |-> token, args |-> [old.args EXCEPT ![1] = token],
                inputFile |-> old.inputFile, outputFile |-> old.outputFile]
  IN  IF token = NULL THEN [cmd EXCEPT !.args[2] = NULL]
      ELSE parse_tokens(toks, 2, cmd, 1)

parse_single_command(segment, old) ==
  LET toks  == strtok(segment, " ")
      token == IF toks = << >> THEN NULL ELSE toks[1]
      cmd   == [command |-> token, args |-> [old.args EXCEPT ![1] = token],
                inputFile |-> NULL, outputFile |-> NULL]
  IN  IF token = NULL THEN [cmd EXCEPT !.args[2] = NULL]
      ELSE parse_tokens(toks, 2, cmd, 1)

\* parse_input without the return of line 193.
parse_input_no_return(text, cmds, before) ==
  LET trimmed  == trim(text)
      verdict  == verify_input(trimmed, before)
      buf      == chomp(trimmed)
      all      == strtok(buf, "|")
      n        == IF Len(all) < MAX_COMMANDS THEN Len(all) ELSE MAX_COMMANDS
  IN  [input |-> buf, verdict |-> verdict, numCommands |-> n,
       commands |-> [c \in 1..MAX_COMMANDS |->
                       IF c <= n THEN parse_single_command(all[c], cmds[c])
                       ELSE cmds[c]]]

\* parse_input: the buffer, the verdict, *numCommands and the commands array
\* it leaves.
parse_input(text, cmds, before) ==
  LET trimmed  == trim(text)
      verdict  == verify_input(trimmed, before)
      buf      == chomp(trimmed)
      all      == strtok(buf, "|")
      n        == IF Len(all) < MAX_COMMANDS THEN Len(all) ELSE MAX_COMMANDS
  IN  IF verdict # "OK"
      THEN [input |-> buf, verdict |-> verdict, numCommands |-> 0, commands |-> cmds]
      ELSE [input |-> buf, verdict |-> verdict, numCommands |-> n,
            commands |-> [c \in 1..MAX_COMMANDS |->
                            IF c <= n THEN parse_single_command(all[c], cmds[c])
                            ELSE cmds[c]]]

\* reset_commands
reset_args(args) ==
  LET stop == CHOOSE k \in 1..(MAX_ARGS + 1) :
                (k = MAX_ARGS + 1 \/ args[k] = NULL)
                /\ \A j \in 1..(k-1) : args[j] # NULL
  IN  [k \in 1..MAX_ARGS |-> IF k < stop THEN NULL ELSE args[k]]

reset_commands(cmds, n) ==
  [c \in 1..MAX_COMMANDS |->
     IF c <= n
     THEN [command |-> NULL, args |-> reset_args(cmds[c].args),
           inputFile |-> NULL, outputFile |-> NULL]
     ELSE cmds[c]]

\* ---------------------------------------------------------------- descriptors
\* What a descriptor refers to.  Pipes and stages are numbered from 0 as in
\* the code; commands[i] of the code is commands[i+1] here.
TTY      == [k |-> "tty",   i |-> 0, name |-> NULL]
Closed   == [k |-> "closed", i |-> 0, name |-> NULL]
PipeR(j) == [k |-> "pipeR", i |-> j, name |-> NULL]
PipeW(j) == [k |-> "pipeW", i |-> j, name |-> NULL]
FileR(f) == [k |-> "fileR", i |-> 0, name |-> f]
FileW(f) == [k |-> "fileW", i |-> 0, name |-> f]

\* A slot of the process table: st is the position of the child in the
\* body of `if (pid == 0)`, fds the pipe endpoints it holds through
\* pipes[j].read_fd / pipes[j].write_fd, in and out what its descriptors 0
\* and 1 refer to; status is its exit status and why the call that ended it
\* ("fopen", "execve", or "program" when its program terminated).
NoChild ==
  [st |-> "none", fds |-> {}, in |-> Closed, out |-> Closed, status |-> "none",
   why |-> "none"]

Dead(status, why) ==
  [st |-> "zombie", fds |-> {}, in |-> Closed, out |-> Closed, status |-> status,
   why |-> why]

Stages == 0..(MAX_COMMANDS - 1)

\* malloc(n * sizeof(PipeFD)) returns NULL: n is an int, the product is a
\* size_t, so a negative n asks for more than PTRDIFF_MAX bytes.  malloc(0)
\* returns a pointer that is not NULL (glibc, musl).
malloc_fails(n) == n < 0

VARIABLES
  pc,           \* where the shell process is: "prompt", "malloc", "pipes",
                \* "fork", "close", "wait"; "exit" after exit(EXIT_FAILURE),
                \* "done" after return 0
  line,         \* the line fgets read, newline cut (main, line 366)
  input,        \* the buffer after trim and verify_input
  verdict,      \* the result of verify_input for the line
  numCommands,
  commands,
  i,            \* the loop variable of execute_commands
  parentFds,    \* the pipe endpoints the shell holds
  child,        \* the children of the shell, by stage
  spawned,      \* number of fork() calls made for the line
  pipesMade     \* number of pipe() calls that succeeded for the line

vars == << pc, line, input, verdict, numCommands, commands, i, parentFds,
           child, spawned, pipesMade >>

Init ==
  /\ pc = "prompt"
  /\ line = << >>
  /\ input = << >>
  /\ verdict = "none"
  /\ numCommands = 0
  /\ commands = [c \in 1..MAX_COMMANDS |-> FreshCommand]
  /\ i = 0
  /\ parentFds = {}
  /\ child = [c \in Stages |-> NoChild]
  /\ spawned = 0
  /\ pipesMade = 0

\* ---------------------------------------------------------------- main
\* fgets returns a line; main cuts the newline and calls parse_input
\* (lines 357-370).
Read(from) ==
  /\ pc = "prompt"
  /\ \E l \in from, b \in Bytes :
       LET r == parse_input(l, commands, b) IN
         /\ line' = l
         /\ input' = r.input
         /\ verdict' = r.verdict
         /\ numCommands' = r.numCommands
         /\ commands' = r.commands
  /\ pc' = "malloc"
  /\ i' = 0
  /\ child' = [c \in Stages |-> NoChild]
  /\ spawned' = 0
  /\ pipesMade' = 0
  /\ UNCHANGED parentFds

ReadLine == Read(Lines)

ReadPipeline == Read(PipelineLines)

\* fgets returns NULL: break, free, return 0 (lines 360-401).
EndOfInput ==
  /\ pc = "prompt"
  /\ pc' = "done"
  /\ UNCHANGED << line, input, verdict, numCommands, commands, i, parentFds,
                  child, spawned, pipesMade >>

\* ---------------------------------------------------------------- execute_commands
\* malloc of the pipe array (lines 220-225); exit() closes what the shell holds.
Malloc ==
  /\ pc = "malloc"
  /\ IF malloc_fails(numCommands - 1)
     THEN pc' = "exit"
     ELSE pc' = IF 0 < numCommands - 1 THEN "pipes" ELSE "fork"
  /\ UNCHANGED << line, input, verdict, numCommands, commands, i, parentFds,
                  child, spawned, pipesMade >>

\* One iteration of the pipe loop, pipe() succeeding (lines 229-239).
PipeOk ==
  /\ pc = "pipes"
  /\ i < numCommands - 1
  /\ parentFds' = parentFds \cup {PipeR(i), PipeW(i)}
  /\ pipesMade' = pipesMade + 1
  /\ IF i + 1 < numCommands - 1
     THEN pc' = "pipes" /\ i' = i + 1
     ELSE pc' = "fork" /\ i' = 0
  /\ UNCHANGED << line, input, verdict, numCommands, commands, child, spawned >>

\* A failed pipe() after which the function goes on to the fork loop.
PipeFail_goes_on ==
  /\ pc = "pipes"
  /\ i < numCommands - 1
  /\ pc' = "fork"
  /\ i' = 0
  /\ UNCHANGED << line, input, verdict, numCommands, commands, parentFds,
                  child, spawned, pipesMade >>

\* pipe() fails: perror, free, exit(EXIT_FAILURE) (lines 231-236).
PipeFail ==
  /\ pc = "pipes"
  /\ i < numCommands - 1
  /\ pc' = "exit"
  /\ parentFds' = {}
  /\ UNCHANGED << line, input, verdict, numCommands, commands, i, child,
                  spawned, pipesMade >>

\* One iteration of the fork loop in the shell (lines 245-248, 326): the
\* child starts with a copy of the shell's descriptors.
Fork ==
  /\ pc = "fork"
  /\ i < numCommands
  /\ child' = [child EXCEPT ![i] =
                 [st |-> "closeOthers", fds |-> parentFds, in |-> TTY,
                  out |-> TTY, status |-> "none", why |-> "none"]]
  /\ spawned' = spawned + 1
  /\ IF i + 1 < numCommands
     THEN pc' = "fork" /\ i' = i + 1
     ELSE /\ pc' = IF 0 < numCommands - 1 THEN "close" ELSE "wait"
          /\ i' = 0
  /\ UNCHANGED << line, input, verdict, numCommands, commands, parentFds,
                  pipesMade >>

\* The close loop closing the read ends only.
ParentClose_read_only ==
  /\ pc = "close"
  /\ i < numCommands - 1
  /\ parentFds' = parentFds \ {PipeR(i)}
  /\ IF i + 1 < numCommands - 1
     THEN pc' = "close" /\ i' = i + 1
     ELSE pc' = "wait" /\ i' = 0
  /\ UNCHANGED << line, input, verdict, numCommands, commands, child,
                  spawned, pipesMade >>

\* One iteration of the shell's close loop (lines 329-333).
ParentClose ==
  /\ pc = "close"
  /\ i < numCommands - 1
  /\ parentFds' = parentFds \ {PipeR(i), PipeW(i)}
  /\ IF i + 1 < numCommands - 1
     THEN pc' = "close" /\ i' = i + 1
     ELSE pc' = "wait" /\ i' = 0
  /\ UNCHANGED << line, input, verdict, numCommands, commands, child,
                  spawned, pipesMade >>

\* wait(NULL) > 0: a terminated child is reaped (line 339).
WaitReap ==
  /\ pc = "wait"
  /\ \E c \in Stages :
       /\ child[c].st = "zombie"
       /\ child' = [child EXCEPT ![c].st = "reaped"]
  /\ UNCHANGED << pc, line, input, verdict, numCommands, commands, i,
                  parentFds, spawned, pipesMade >>

\* A wait that gives up as soon as no terminated child is there to reap.
WaitReturn_no_block ==
  /\ pc = "wait"
  /\ \A c \in Stages : child[c].st # "zombie"
  /\ commands' = reset_commands(commands, numCommands)
  /\ numCommands' = 0
  /\ pc' = "prompt"
  /\ UNCHANGED << line, input, verdict, i, parentFds, child, spawned, pipesMade >>

\* wait(NULL) returns -1, there is no child left: execute_commands returns
\* and main calls reset_commands (lines 339-341, 392).
WaitReturn ==
  /\ pc = "wait"
  /\ \A c \in Stages : child[c].st \in {"none", "reaped"}
  /\ commands' = reset_commands(commands, numCommands)
  /\ numCommands' = 0
  /\ pc' = "prompt"
  /\ UNCHANGED << line, input, verdict, i, parentFds, child, spawned, pipesMade >>

\* ---------------------------------------------------------------- the child
\* The child reads i, *numCommands, pipes and commands from its copy of the
\* shell's memory at fork: the shell changes none of them before every child
\* is reaped, except i, which is the stage c here.

\* The child without the close loop of lines 254-261.
ChildCloseOthers_none(c) ==
  /\ child[c].st = "closeOthers"
  /\ child' = [child EXCEPT ![c].st = "wireIn"]
  /\ UNCHANGED << pc, line, input, verdict, numCommands, commands, i,
                  parentFds, spawned, pipesMade >>

\* lines 254-261
ChildCloseOthers(c) ==
  /\ child[c].st = "closeOthers"
  /\ child' = [child EXCEPT
       ![c].fds = @ \ UNION { {PipeR(j), PipeW(j)} :
                              j \in {k \in 0..(numCommands - 2) : k # c - 1 /\ k # c} },
       ![c].st = "wireIn"]
  /\ UNCHANGED << pc, line, input, verdict, numCommands, commands, i,
                  parentFds, spawned, pipesMade >>

\* Stage c reading from pipe c instead of pipe c - 1.
ChildWireIn_wrong_pipe(c) ==
  /\ child[c].st = "wireIn"
  /\ child' = IF c # 0
              THEN [child EXCEPT ![c].fds = @ \ {PipeW(c - 1)},
                                 ![c].in = PipeR(c),
                                 ![c].st = "wireOut"]
              ELSE [child EXCEPT ![c].st = "wireOut"]
  /\ UNCHANGED << pc, line, input, verdict, numCommands, commands, i,
                  parentFds, spawned, pipesMade >>

\* The child without the close of line 266.
ChildWireIn_keep_write(c) ==
  /\ child[c].st = "wireIn"
  /\ child' = IF c # 0
              THEN [child EXCEPT ![c].in = PipeR(c - 1),
                                 ![c].st = "wireOut"]
              ELSE [child EXCEPT ![c].st = "wireOut"]
  /\ UNCHANGED << pc, line, input, verdict, numCommands, commands, i,
                  parentFds, spawned, pipesMade >>

\* lines 264-268
ChildWireIn(c) ==
  /\ child[c].st = "wireIn"
  /\ child' = IF c # 0
              THEN [child EXCEPT ![c].fds = @ \ {PipeW(c - 1)},
                                 ![c].in = PipeR(c - 1),
                                 ![c].st = "wireOut"]
              ELSE [child EXCEPT ![c].st = "wireOut"]
  /\ UNCHANGED << pc, line, input, verdict, numCommands, commands, i,
                  parentFds, spawned, pipesMade >>

\* The child without the close of line 273.
ChildWireOut_keep_read(c) ==
  /\ child[c].st = "wireOut"
  /\ child' = IF c # numCommands - 1
              THEN [child EXCEPT ![c].out = PipeW(c),
                                 ![c].st = "redirIn"]
              ELSE [child EXCEPT ![c].st = "redirIn"]
  /\ UNCHANGED << pc, line, input, verdict, numCommands, commands, i,
                  parentFds, spawned, pipesMade >>

\* lines 271-275
ChildWireOut(c) ==
  /\ child[c].st = "wireOut"
  /\ child' = IF c # numCommands - 1
              THEN [child EXCEPT ![c].fds = @ \ {PipeR(c)},
                                 ![c].out = PipeW(c),
                                 ![c].st = "redirIn"]
              ELSE [child EXCEPT ![c].st = "redirIn"]
  /\ UNCHANGED << pc, line, input, verdict, numCommands, commands, i,
                  parentFds, spawned, pipesMade >>

\* A failed fopen of the input file followed by exit(EXIT_SUCCESS).
ChildRedirIn_exit_ok(c) ==
  /\ child[c].st = "redirIn"
  /\ IF commands[c + 1].inputFile # NULL
     THEN \/ child' = [child EXCEPT ![c].in = FileR(commands[c + 1].inputFile),
                                    ![c].st = "redirOut"]
          \/ child' = [child EXCEPT ![c] = Dead("success", "fopen")]
     ELSE child' = [child EXCEPT ![c].st = "redirOut"]
  /\ UNCHANGED << pc, line, input, verdict, numCommands, commands, i,
                  parentFds, spawned, pipesMade >>

\* The input redirect applied only where no pipe was wired to stdin.
ChildRedirIn_pipe_wins(c) ==
  /\ child[c].st = "redirIn"
  /\ IF commands[c + 1].inputFile # NULL
     THEN \/ child' = [child EXCEPT
                         ![c].in = IF @ = TTY THEN FileR(commands[c + 1].inputFile)
                                   ELSE @,
                         ![c].st = "redirOut"]
          \/ child' = [child EXCEPT ![c] = Dead("failure", "fopen")]
     ELSE child' = [child EXCEPT ![c].st = "redirOut"]
  /\ UNCHANGED << pc, line, input, verdict, numCommands, commands, i,
                  parentFds, spawned, pipesMade >>

\* lines 279-289: fopen succeeds or fails
ChildRedirIn(c) ==
  /\ child[c].st = "redirIn"
  /\ IF commands[c + 1].inputFile # NULL
     THEN \/ child' = [child EXCEPT ![c].in = FileR(commands[c + 1].inputFile),
                                    ![c].st = "redirOut"]
          \/ child' = [child EXCEPT ![c] = Dead("failure", "fopen")]
     ELSE child' = [child EXCEPT ![c].st = "redirOut"]
  /\ UNCHANGED << pc, line, input, verdict, numCommands, commands, i,
                  parentFds, spawned, pipesMade >>

\* lines 291-301
ChildRedirOut(c) ==
  /\ child[c].st = "redirOut"
  /\ IF commands[c + 1].outputFile # NULL
     THEN \/ child' = [child EXCEPT ![c].out = FileW(commands[c + 1].outputFile),
                                    ![c].st = "exec"]
          \/ child' = [child EXCEPT ![c] = Dead("failure", "fopen")]
     ELSE child' = [child EXCEPT ![c].st = "exec"]
  /\ UNCHANGED << pc, line, input, verdict, numCommands, commands, i,
                  parentFds, spawned, pipesMade >>

\* execve succeeds (line 306): the program runs with the descriptors set up.
\* execve(NULL, ...) fails with EFAULT.
ChildExecOk(c) ==
  /\ child[c].st = "exec"
  /\ commands[c + 1].command # NULL
  /\ child' = [child EXCEPT ![c].st = "running"]
  /\ UNCHANGED << pc, line, input, verdict, numCommands, commands, i,
                  parentFds, spawned, pipesMade >>

\* A failed execve without the exit of line 323: the child goes round the
\* fork loop of line 245 and forks the stages after its own.
ChildExecFail_no_exit(c) ==
  /\ child[c].st = "exec"
  /\ child' = [child EXCEPT ![c] = Dead("failure", "execve")]
  /\ spawned' = spawned + (numCommands - 1 - c)
  /\ UNCHANGED << pc, line, input, verdict, numCommands, commands, i,
                  parentFds, pipesMade >>

\* execve fails: perror, close, exit(EXIT_FAILURE) (lines 306-324).
ChildExecFail(c) ==
  /\ child[c].st = "exec"
  /\ child' = [child EXCEPT ![c] = Dead("failure", "execve")]
  /\ UNCHANGED << pc, line, input, verdict, numCommands, commands, i,
                  parentFds, spawned, pipesMade >>

\* The program of the stage terminates; the kernel closes its descriptors.
ProgramExit(c) ==
  /\ child[c].st = "running"
  /\ child' = [child EXCEPT ![c] = Dead("program", "program")]
  /\ UNCHANGED << pc, line, input, verdict, numCommands, commands, i,
                  parentFds, spawned, pipesMade >>

Next ==
  \/ ReadLine
  \/ EndOfInput
  \/ Malloc
  \/ PipeOk
  \/ PipeFail
  \/ Fork
  \/ ParentClose
  \/ WaitReap
  \/ WaitReturn
  \/ \E c \in Stages : ChildCloseOthers(c)
  \/ \E c \in Stages : ChildWireIn(c)
  \/ \E c \in Stages : ChildWireOut(c)
  \/ \E c \in Stages : ChildRedirIn(c)
  \/ \E c \in Stages : ChildRedirOut(c)
  \/ \E c \in Stages : ChildExecOk(c)
  \/ \E c \in Stages : ChildExecFail(c)
  \/ \E c \in Stages : ProgramExit(c)

Spec == Init /\ [][Next]_vars

\* ---------------------------------------------------------------- the parser alone
\* parse_input applied to one line, as main calls it on its first line
\* (line 370).
ParseInit ==
  /\ pc = "parse"
  /\ line \in ParseLines
  /\ input = << >>
  /\ verdict = "none"
  /\ numCommands = 0
  /\ commands = [c \in 1..MAX_COMMANDS |-> FreshCommand]
  /\ i = 0
  /\ parentFds = {}
  /\ child = [c \in Stages |-> NoChild]
  /\ spawned = 0
  /\ pipesMade = 0

ParseLine ==
  /\ pc = "parse"
  /\ \E b \in Bytes :
       LET r == parse_input(line, commands, b) IN
         /\ input' = r.input
         /\ verdict' = r.verdict
         /\ numCommands' = r.numCommands
         /\ commands' = r.commands
  /\ pc' = "parsed"
  /\ UNCHANGED << line, i, parentFds, child, spawned, pipesMade >>

ParseNext == ParseLine

ParseSpec == ParseInit /\ [][ParseNext]_vars

\* ---------------------------------------------------------------- scheduling
\* A process holds the write end of pipe j: the shell or a child through
\* pipes[j].write_fd, a child through its descriptor 1.
WriteHeld(j) ==
  \/ PipeW(j) \in parentFds
  \/ \E c \in Stages : PipeW(j) \in child[c].fds \/ child[c].out = PipeW(j)

\* A read of pipe j returns end-of-file once its buffer is drained.
EndOfFile(j) == ~WriteHeld(j)

\* The standard input of the program of stage c comes to an end: a file, or
\* a pipe no process can write to any more.
InputEnded(c) ==
  \/ child[c].in.k = "fileR"
  \/ child[c].in.k = "pipeR" /\ EndOfFile(child[c].in.i)

\* A step of the shell inside execute_commands.
ShellStep ==
  Malloc \/ PipeOk \/ PipeFail \/ Fork \/ ParentClose \/ WaitReap \/ WaitReturn

\* A step of child c between fork and execve (lines 248-324).
ChildSetup(c) ==
  \/ ChildCloseOthers(c) \/ ChildWireIn(c) \/ ChildWireOut(c)
  \/ ChildRedirIn(c) \/ ChildRedirOut(c)
  \/ ChildExecOk(c) \/ ChildExecFail(c)

\* The kernel schedules every process that can run, and a program whose
\* input has come to an end terminates.  Nothing makes the user type a line
\* and nothing makes a program that reads the terminal terminate.
FairNext ==
  \/ ReadPipeline
  \/ EndOfInput
  \/ Malloc
  \/ PipeOk
  \/ PipeFail
  \/ Fork
  \/ ParentClose
  \/ WaitReap
  \/ WaitReturn
  \/ \E c \in Stages : ChildCloseOthers(c)
  \/ \E c \in Stages : ChildWireIn(c)
  \/ \E c \in Stages : ChildWireOut(c)
  \/ \E c \in Stages : ChildRedirIn(c)
  \/ \E c \in Stages : ChildRedirOut(c)
  \/ \E c \in Stages : ChildExecOk(c)
  \/ \E c \in Stages : ChildExecFail(c)
  \/ \E c \in Stages : ProgramExit(c)

FairSpec ==
  /\ Init
  /\ [][FairNext]_vars
  /\ WF_vars(ShellStep)
  /\ \A c \in Stages : WF_vars(ChildSetup(c))
  /\ \A c \in Stages : WF_vars(InputEnded(c) /\ ProgramExit(c))

TypeOK ==
  /\ pc \in {"prompt", "malloc", "pipes", "fork", "close", "wait", "exit", "done"}
  /\ numCommands \in 0..MAX_COMMANDS
  /\ spawned \in Nat
  /\ \A c \in Stages : child[c].st \in
       {"none", "closeOthers", "wireIn", "wireOut", "redirIn", "redirOut",
        "exec", "running", "zombie", "reaped"}

\* ---------------------------------------------------------------- properties
\* The line has been through the validator.
Validated == verdict # "none"
Rejected  == verdict \notin {"none", "OK"}

\* The text of a line without its leading and trailing whitespace.
Trimmed(s) ==
  IF \A k \in 1..Len(s) : isspace(s[k]) THEN << >>
  ELSE LET first == CHOOSE k \in 1..Len(s) :
                      ~isspace(s[k]) /\ \A j \in 1..(k-1) : isspace(s[j])
           last  == CHOOSE k \in 1..Len(s) :
                      ~isspace(s[k]) /\ \A j \in (k+1)..Len(s) : isspace(s[j])
       IN SubSeq(s, first, last)

PipeAtEdge(s) ==
  LET t == Trimmed(s) IN t # << >> /\ (t[1] = "|" \/ t[Len(t)] = "|")

AdjacentPipes(s) == \E k \in 1..(Len(s) - 1) : s[k] = "|" /\ s[k + 1] = "|"

\* The children of the line, by what they are doing.
Alive(c)   == child[c].st \notin {"none", "zombie", "reaped"}
Spawned(c) == child[c].st # "none"
AtExec(c)  == child[c].st \in {"exec", "running"}

Executing == pc \in {"pipes", "fork", "close", "wait"}

AllPipeEnds == UNION { {PipeR(j), PipeW(j)} : j \in 0..(numCommands - 2) }

\* C1: after a line that fails validation the shell does not terminate; the
\* read loop goes on to the next prompt.
C1_RejectedLineKeepsShell == Rejected => pc # "exit"

\* C2: a line that fails validation yields zero commands, and while it is
\* handled no pipe is created and no child process is spawned.
C2_RejectedLineSpawnsNothing ==
  Rejected => /\ numCommands = 0
              /\ pipesMade = 0
              /\ spawned = 0
              /\ parentFds = {}
              /\ \A c \in Stages : child[c].st = "none"

C2_Witness == Rejected /\ pc = "exit" /\ line = << "a", " ", "|", "|", " ", "a" >>

\* C3: a line whose whitespace-trimmed text starts or ends with | is
\* rejected as MalformedPipe and spawns no process.
C3_PipeAtEdgeRejected ==
  (Validated /\ PipeAtEdge(line)) => (verdict = "MalformedPipe" /\ spawned = 0)

\* C4: a line that contains two adjacent pipe characters is rejected as
\* MalformedPipe and produces no commands.
C4_AdjacentPipesRejected ==
  (Validated /\ AdjacentPipes(line)) => (verdict = "MalformedPipe" /\ numCommands = 0)

C4_Witness ==
  /\ line = << "a", " ", "|", "|", " ", "a" >>
  /\ verdict = "MalformedPipe"
  /\ pc = "malloc"

\* C5: a line whose text is empty after trimming whitespace (blanks, tabs)
\* is rejected as Empty and produces no commands.
C5_BlankLineIsEmpty ==
  (Validated /\ Trimmed(line) = << >>) => (verdict = "Empty" /\ numCommands = 0)

\* C6: for a validated pipeline of K stages exactly K processes are spawned:
\* the shell forks once per stage 0..K-1 and no child forks.
C6_OneProcessPerStage ==
  /\ Cardinality({c \in Stages : Spawned(c)}) = spawned
  /\ pc = "fork" => (spawned = i /\ \A c \in Stages : Spawned(c) <=> c < i)
  /\ pc \in {"close", "wait"} =>
       (spawned = numCommands /\ \A c \in Stages : Spawned(c) <=> c < numCommands)
  /\ (pc = "prompt" /\ verdict = "OK") =>
       (spawned >= 1 /\ \A c \in Stages : child[c].st = "reaped" <=> c < spawned)

C6_Witness ==
  /\ pc = "wait"
  /\ numCommands = 3
  /\ spawned = 3
  /\ child[0].status = "failure"
  /\ child[1].st = "running"

\* C7: the shell closes all 2*(K-1) pipe endpoints after the last child is
\* spawned and before it waits; it holds no pipe descriptor while it waits
\* nor when execution has returned.
C7_ParentClosesAllPipes ==
  /\ pc = "fork" => (parentFds = AllPipeEnds /\ Cardinality(parentFds) = 2 * (numCommands - 1))
  /\ pc = "close" => spawned = numCommands
  /\ pc \in {"wait", "prompt", "done"} => parentFds = {}

C7_Witness ==
  /\ pc = "wait"
  /\ numCommands = 3
  /\ pipesMade = 2
  /\ parentFds = {}
  /\ \E c \in Stages : Alive(c)

\* C8: execution does not return to the read loop while a child of the
\* pipeline is alive: all K children are reaped, in whatever order they
\* terminate, before the next line is read.
C8_ReturnsAfterAllReaped ==
  pc \in {"prompt", "done"} =>
    /\ \A c \in Stages : child[c].st \in {"none", "reaped"}
    /\ Cardinality({c \in Stages : child[c].st = "reaped"}) = spawned

C8_Witness ==
  /\ pc = "prompt"
  /\ spawned = 3
  /\ \A c \in 0..2 : child[c].st = "reaped"

\* C9: for K >= 2 and no redirections, at exec time stage c writes to the
\* write end of pipe c and stage c+1 reads from the read end of the same
\* pipe, and the program of a stage holds no end of any other pipe.
NoRedirections ==
  \A c \in 1..numCommands :
    commands[c].inputFile = NULL /\ commands[c].outputFile = NULL

C9_AdjacentStagesShareAPipe ==
  (Executing /\ numCommands >= 2 /\ NoRedirections) =>
    \A c \in Stages : AtExec(c) =>
      /\ child[c].out = IF c < numCommands - 1 THEN PipeW(c) ELSE TTY
      /\ child[c].in  = IF c > 0 THEN PipeR(c - 1) ELSE TTY
      /\ child[c].fds = ({PipeW(c)} \cap AllPipeEnds) \cup ({PipeR(c - 1)} \cap AllPipeEnds)

C9_Witness ==
  /\ numCommands = 3
  /\ NoRedirections
  /\ \A c \in 0..2 : child[c].st = "running"
  /\ child[0].out = PipeW(0) /\ child[1].in = PipeR(0)
  /\ child[1].out = PipeW(1) /\ child[2].in = PipeR(1)

\* C10: redirect wins over pipe: at exec time a stage with an input redirect
\* reads the file and not the upstream pipe, a stage with an output redirect
\* writes the file and not the downstream pipe; the output of a single
\* stage is never a pipe.
C10_RedirectWinsOverPipe ==
  Executing =>
    /\ \A c \in Stages : AtExec(c) =>
         /\ commands[c + 1].inputFile # NULL =>
              child[c].in = FileR(commands[c + 1].inputFile)
         /\ commands[c + 1].outputFile # NULL =>
              child[c].out = FileW(commands[c + 1].outputFile)
    /\ numCommands = 1 => child[0].out.k # "pipeW"

C10_Witness ==
  /\ numCommands = 3
  /\ child[1].st = "running"
  /\ child[1].in = FileR(<< "f" >>)
  /\ child[1].out = FileW(<< "g" >>)
  /\ child[0].out = PipeW(0)
  /\ child[2].in = PipeR(1)

\* Every stage of the line has been forked and reaped.
AllReaped ==
  /\ pc = "wait"
  /\ spawned = numCommands
  /\ \A c \in Stages : c < numCommands => child[c].st = "reaped"

\* C11: if the program of stage 0 cannot be executed, that child exits with
\* a failure status, every later stage is still spawned and runs, the read
\* end of pipe 0 comes to end-of-file, and (the other programs terminating
\* at end-of-file) the shell reaps every child and returns to the prompt.
FirstStageExecFailed == Executing /\ child[0].why = "execve"

C11_FirstStageExecFails ==
  /\ [](FirstStageExecFailed => child[0].status = "failure")
  /\ FirstStageExecFailed ~> AllReaped
  /\ (FirstStageExecFailed /\ numCommands >= 2) ~> (Executing /\ EndOfFile(0))
  /\ FirstStageExecFailed ~> (pc = "prompt")

C11_Witness ==
  /\ pc = "prompt"
  /\ spawned = 3
  /\ child[0].why = "execve"
  /\ child[1].why = "program"
  /\ child[2].why = "program"
  /\ \A c \in 0..2 : child[c].st = "reaped"

\* C12: if a redirect file of a stage cannot be opened, the child of that
\* stage terminates with a failure status without executing its program,
\* and every stage of the pipeline is still spawned and runs to completion
\* (all are reaped, unless the program of stage 0 is left reading the
\* terminal, which only the user ends).
RedirectFailed(c) == Executing /\ child[c].why = "fopen"

ReadsTerminal == child[0].st = "running" /\ child[0].in = TTY

C12_RedirectOpenFails ==
  /\ [](\A c \in Stages : RedirectFailed(c) =>
          /\ child[c].status = "failure"
          /\ child[c].st \in {"zombie", "reaped"}
          /\ pc # "exit")
  /\ (\E c \in Stages : RedirectFailed(c)) ~>
       \/ AllReaped
       \/ /\ ReadsTerminal
          /\ spawned = numCommands
          /\ \A d \in Stages : (0 < d /\ d < numCommands) => child[d].st = "reaped"

C12_Witness ==
  /\ pc = "prompt"
  /\ spawned = 3
  /\ child[1].why = "fopen"
  /\ child[1].status = "failure"
  /\ child[0].why = "program"
  /\ child[2].why = "program"
  /\ \A c \in 0..2 : child[c].st = "reaped"

\* C13: if the creation of one of the K-1 pipes fails, the pipeline is
\* aborted: no child is spawned for it and no pipe created before is left
\* open.
PipeFailed ==
  /\ verdict = "OK"
  /\ pc \notin {"malloc", "pipes"}
  /\ pipesMade < numCommands - 1

C13_PipeFailureAborts ==
  PipeFailed => /\ spawned = 0
                /\ \A c \in Stages : child[c].st = "none"
                /\ parentFds = {}
                /\ ~ \E j \in Stages : WriteHeld(j)

C13_Witness ==
  /\ PipeFailed
  /\ pc = "exit"
  /\ numCommands = 3
  /\ pipesMade = 1

\* ---------------------------------------------------------------- parsed stages
\* parse_input has returned for the line.
Parsed == pc \in {"parsed", "malloc"}

\* The argv of a stage: args up to its NULL terminator.
ArgvOf(cmd) ==
  LET stop == IF \E k \in 1..MAX_ARGS : cmd.args[k] = NULL
              THEN CHOOSE k \in 1..MAX_ARGS :
                     cmd.args[k] = NULL /\ \A j \in 1..(k-1) : cmd.args[j] # NULL
              ELSE MAX_ARGS + 1
  IN  SubSeq(cmd.args, 1, stop - 1)

Prefix(seq, n) == SubSeq(seq, 1, IF Len(seq) < n THEN Len(seq) ELSE n)

\* The text of stage c (from 1) of the buffer and its words.
SegmentWords(c) == strtok(strtok(input, "|")[c], " ")

\* What the words of a stage mean when read from word k on: a < or > takes
\* the word after it as the file of the redirect (none when it is the last
\* word), every other word is an argument.
RECURSIVE Meaning(_, _, _)
Meaning(words, k, acc) ==
  IF k > Len(words) THEN acc
  ELSE IF words[k] = << "<" >> THEN
         IF k = Len(words) THEN [acc EXCEPT !.in = NULL]
         ELSE Meaning(words, k + 2, [acc EXCEPT !.in = words[k + 1]])
  ELSE IF words[k] = << ">" >> THEN
         IF k = Len(words) THEN [acc EXCEPT !.out = NULL]
         ELSE Meaning(words, k + 2, [acc EXCEPT !.out = words[k + 1]])
  ELSE Meaning(words, k + 1, [acc EXCEPT !.argv = Append(@, words[k])])

\* Every word read as above.
MeaningOfAll(words) == Meaning(words, 1, [argv |-> << >>, in |-> NULL, out |-> NULL])

\* The first word is the program whatever it is, the others read as above.
MeaningAfterProgram(words) ==
  IF words = << >> THEN [argv |-> << >>, in |-> NULL, out |-> NULL]
  ELSE Meaning(words, 2, [argv |-> << words[1] >>, in |-> NULL, out |-> NULL])

\* C14: every stage of an accepted line has a program and an argv that is
\* not empty and starts with the program.
C14_StagesHaveProgram ==
  (Parsed /\ verdict = "OK") =>
    \A c \in 1..numCommands :
      /\ commands[c].command # NULL
      /\ ArgvOf(commands[c]) # << >>
      /\ commands[c].args[1] = commands[c].command

\* C15: argv keeps the first min(n, MAX_ARGS) of the n words of a stage that
\* are not part of a redirection, in their order.
C15_ArgvKeepsMaxArgs ==
  (Parsed /\ verdict = "OK") =>
    \A c \in 1..numCommands :
      ArgvOf(commands[c]) = Prefix(MeaningAfterProgram(SegmentWords(c)).argv, MAX_ARGS)

\* C16 as claimed: in every stage every bare < or > takes the word after it
\* as the redirect, and neither of the two is in argv.
C16_EveryOperatorRedirects ==
  (Parsed /\ verdict = "OK") =>
    \A c \in 1..numCommands :
      LET m == MeaningOfAll(SegmentWords(c)) IN
        /\ ArgvOf(commands[c]) = Prefix(m.argv, MAX_ARGS - 1)
        /\ commands[c].inputFile = m.in
        /\ commands[c].outputFile = m.out

\* C16: in every stage the first word is the program and argv[0] whatever
\* it is; among the words after it a bare < makes the following word the
\* input redirect and a bare > the output redirect, neither the operator
\* nor the file name is in argv, and a dangling < or > leaves its redirect
\* unset.
C16_OperatorAfterProgramRedirects ==
  (Parsed /\ verdict = "OK") =>
    \A c \in 1..numCommands :
      LET m == MeaningAfterProgram(SegmentWords(c)) IN
        /\ ArgvOf(commands[c]) = Prefix(m.argv, MAX_ARGS - 1)
        /\ commands[c].inputFile = m.in
        /\ commands[c].outputFile = m.out

C16_Witness ==
  /\ pc = "parsed"
  /\ line = TokenLine(<< "a", "<", "f", ">" >>)
  /\ ArgvOf(commands[1]) = << << "a" >> >>
  /\ commands[1].inputFile = << "f" >>
  /\ commands[1].outputFile = NULL

\* The parts of s between the occurrences of d, empty ones included.
RECURSIVE SplitAll(_, _)
SplitAll(s, d) ==
  IF \E k \in 1..Len(s) : s[k] = d
  THEN LET at == CHOOSE k \in 1..Len(s) : s[k] = d /\ \A j \in 1..(k-1) : s[j] # d
       IN << SubSeq(s, 1, at - 1) >> \o SplitAll(SubSeq(s, at + 1, Len(s)), d)
  ELSE << s >>

PipeCount(s) == Cardinality({k \in 1..Len(s) : s[k] = "|"})

\* Stage c of an accepted line is what the c-th part of the buffer means,
\* and there are as many stages as parts.
StagesAreSegments ==
  verdict = "OK" =>
    /\ numCommands = PipeCount(input) + 1
    /\ numCommands \in 1..MAX_COMMANDS
    /\ \A c \in 1..numCommands :
         LET m == MeaningAfterProgram(strtok(SplitAll(input, "|")[c], " ")) IN
           /\ ArgvOf(commands[c]) = Prefix(m.argv, MAX_ARGS - 1)
           /\ commands[c].command = (IF m.argv = << >> THEN NULL ELSE m.argv[1])
           /\ commands[c].inputFile = m.in
           /\ commands[c].outputFile = m.out

\* C17 as claimed: an accepted line gives (number of |) + 1 stages, 1 to
\* MAX_COMMANDS, stage j from the j-th part; a line with MAX_COMMANDS or
\* more | is rejected as TooManyCommands.
C17_SegmentsAndTooMany ==
  Parsed =>
    /\ StagesAreSegments
    /\ PipeCount(line) >= MAX_COMMANDS => verdict = "TooManyCommands"

\* C17: an accepted line gives (number of |) + 1 stages, 1 to MAX_COMMANDS,
\* stage j from the j-th part; a line with MAX_COMMANDS or more | is
\* rejected, as TooManyCommands unless the buffer starts or ends with | or
\* holds ||, which is rejected before as MalformedPipe.
C17_SegmentsAndRejection ==
  Parsed =>
    /\ StagesAreSegments
    /\ PipeCount(line) >= MAX_COMMANDS =>
         /\ numCommands = 0
         /\ verdict = IF input[1] = "|" \/ input[Len(input)] = "|" \/ AdjacentPipes(input)
                      THEN "MalformedPipe" ELSE "TooManyCommands"

C17_Witness ==
  /\ pc = "parsed"
  /\ line = PipeLine(MAX_COMMANDS - 1)
  /\ numCommands = MAX_COMMANDS
  /\ \A c \in 1..MAX_COMMANDS : commands[c].command = << "a" >>

\* C18: no residual state crosses lines: whatever lines came before, the
\* pipeline parsed from a valid line (stage count, program, argv and
\* redirects of every stage) and the descriptors set up for it are those of
\* the line read by a shell that has just started.
FirstLine == parse_input(line, [c \in 1..MAX_COMMANDS |-> FreshCommand], "x")

C18_NoResidualState ==
  (verdict = "OK" /\ pc \in {"malloc", "pipes", "fork", "close", "wait"}) =>
    /\ numCommands = FirstLine.numCommands
    /\ \A c \in 1..numCommands :
         /\ commands[c].command = FirstLine.commands[c].command
         /\ ArgvOf(commands[c]) = ArgvOf(FirstLine.commands[c])
         /\ commands[c].inputFile = FirstLine.commands[c].inputFile
         /\ commands[c].outputFile = FirstLine.commands[c].outputFile
    /\ pc = "malloc" => (parentFds = {} /\ \A c \in Stages : child[c].st = "none")
    /\ \A c \in Stages : AtExec(c) =>
         LET cmd == FirstLine.commands[c + 1] IN
           /\ child[c].in = IF cmd.inputFile # NULL THEN FileR(cmd.inputFile)
                            ELSE IF c > 0 THEN PipeR(c - 1) ELSE TTY
           /\ child[c].out = IF cmd.outputFile # NULL THEN FileW(cmd.outputFile)
                             ELSE IF c < FirstLine.numCommands - 1 THEN PipeW(c) ELSE TTY

C18_Witness ==
  /\ pc = "wait"
  /\ line = << "a" >>
  /\ child[0].st = "running"
  /\ commands[1].args[3] = NULL
  /\ commands[2].inputFile = NULL
  /\ commands[3].command = NULL

\* The pipe ends process c holds, through pipes[] or as descriptor 0 or 1.
Holds(c) == (child[c].fds \cup {child[c].in, child[c].out}) \cap AllPipeEnds

\* Every child is past its descriptor setup (lines 253-275) and the shell
\* has closed its copies.
SetupDone ==
  /\ pc = "wait"
  /\ \A c \in Stages :
       c < numCommands => child[c].st \notin {"none", "closeOthers", "wireIn", "wireOut"}

\* C19: once every child is past its descriptor setup and the shell has
\* closed its copies, the write end of pipe j is held by stage j only and
\* its read end by stage j+1 only; no other child and not the shell holds
\* an end of pipe j.
C19_SingleOwnerAfterSetup ==
  SetupDone =>
    /\ parentFds = {}
    /\ \A j \in 0..(numCommands - 2), c \in Stages :
         /\ PipeW(j) \in Holds(c) => c = j
         /\ PipeR(j) \in Holds(c) => c = j + 1
         /\ (Alive(c) /\ c = j) => PipeW(j) \in Holds(c)
         /\ (Alive(c) /\ c = j + 1) => PipeR(j) \in Holds(c)

C19_Witness ==
  /\ SetupDone
  /\ numCommands = 3
  /\ \A c \in 0..2 : child[c].st = "running"
  /\ Holds(1) = {PipeR(0), PipeW(1)}

\* C20: under every interleaving of the children's setup, the shell's close
\* loop and the children's exits: once the process of stage j has
\* terminated, eventually no process holds the write end of pipe j, also
\* when the output of stage j went to a file or stage j failed to open a
\* file or to execute its program.
Terminated(c) == Executing /\ child[c].st \in {"zombie", "reaped"}

C20_EndOfFilePropagates ==
  \A j \in 0..(MAX_COMMANDS - 2) :
    (Terminated(j) /\ j < numCommands - 1) ~> EndOfFile(j)

C20_Witness ==
  /\ pc = "wait"
  /\ numCommands = 3
  /\ child[0].st = "reaped"
  /\ child[1].st = "running"
  /\ child[1].out = FileW(<< "g" >>)
  /\ EndOfFile(0)
  /\ WriteHeld(1)

====
